---- MODULE Spec2Model ----
(***************************************************************************)
(* Model of the Clear Containers proxy client (package client, client.go)  *)
(* talking to a proxy over one AF_UNIX connection.                         *)
(*                                                                         *)
(* Each goroutine that uses the Client is a thread.  A catalog operation   *)
(* (RegisterVM, Attach, AllocateIo, Hyper, UnregisterVM) runs             *)
(* sendPayload: marshal, api.WriteMessage, then a blocking                 *)
(* api.ReadMessage.  The steps that touch the connection are the atomic    *)
(* steps of the model; the code between two of them only touches locals    *)
(* and is folded into the step that precedes it.                           *)
(***************************************************************************)
EXTENDS Integers, Sequences, FiniteSets, TLC

VARIABLES
    pc,        \* per thread: "idle", "read" (blocked in ReadMessage), "readfd" (blocked in ReadFd)
    op,        \* per thread: name of the operation being (or last) executed
    reqTag,    \* per thread: sequence number of the request frame this call wrote, 0 if none
    resp,      \* per thread: the api.Response sendPayload returned to the operation, NoResp if none
    ioBase,    \* per thread: AllocateIo's named result ioBase while the call is blocked in ReadFd
    ret,       \* per thread: what the last operation returned to its caller
    trace,     \* per thread: the connection accesses of the current call, in order
    outbound,  \* request frames written on the connection and not yet taken by the peer
    inbound,   \* what the peer has written on the connection and the client has not read
    conn,      \* Client.conn: the connection the Client was constructed with
    closed,    \* the connection has been closed (Client.Close)
    desync,    \* the client's byte stream position is no longer at a frame boundary
    fdTable,   \* descriptors open in the client process that were received over the connection
    issued,    \* the descriptors AllocateIo has returned, in order of return
    nCalls,    \* number of operations invoked so far
    nWritten,  \* number of request frames written so far
    overlap,   \* some operation was invoked while another one had not returned
    anyFailed, \* some operation has returned an error or panicked
    hdrIn,     \* frame header codec: the header handed to the encoder
    hdrWire,   \* frame header codec: the bytes the encoder produced
    hdrOut     \* frame header codec: what the decoder made of those bytes

vars == <<pc, op, reqTag, resp, ioBase, ret, trace, outbound, inbound, conn, closed,
          desync, fdTable, issued, nCalls, nWritten, overlap, anyFailed,
          hdrIn, hdrWire, hdrOut>>

codecVars == <<hdrIn, hdrWire, hdrOut>>

\* ------------------------------------------------------------------ bounds
MaxCalls == 2

Threads == {"g1", "g2"}

\* ------------------------------------------------------- values on the wire
\* A value of Response.Data after JSON decoding into interface{}: a float64
\* (whole part and tenths, non-negative) or something that is not a number.
Num(w, t) == [kind |-> "float64", whole |-> w, tenths |-> t]

NotANumber == [kind |-> "string", whole |-> 0, tenths |-> 0]

DynValues == {Num(2, 0), Num(1, 5), NotANumber}

\* The key an operation looks up in Response.Data, if it looks up any.
KeysOf(id) ==
    CASE id \in {"register", "attach"} -> {"version"}
      [] id = "allocateIO" -> {"ioBase"}
      [] OTHER -> {}

\* Response.Data in an answer to request id: empty, or the key that
\* operation expects with any value.
DataMaps(id) == UNION {[D -> DynValues] : D \in {{}, KeysOf(id)}}

ErrorTexts == {"", "busy"}

\* api.Response as decoded by ReadMessage; tag names the request it answers
\* (the wire carries no such field: correlation is positional).
Responses(id, tag) ==
    {[tag |-> tag, Success |-> s, Error |-> e, Data |-> d] :
        s \in BOOLEAN, e \in ErrorTexts, d \in DataMaps(id)}

NoResp == [tag |-> 0, Success |-> FALSE, Error |-> "", Data |-> <<>>]

\* ------------------------------------------------------------------ errors
NilErr == [kind |-> "nil", msg |-> ""]

Err(k, m) == [kind |-> k, msg |-> m]

\* What an operation hands back to its caller.  result is TRUE when the
\* returned pointer is non-nil; ioFile is 0 for a nil *os.File.
Return(hasResult, version, base, file, err) ==
    [kind |-> "return", result |-> hasResult, Version |-> version,
     ioBase |-> base, ioFile |-> file, err |-> err]

Panic == [kind |-> "panic", result |-> FALSE, Version |-> 0,
          ioBase |-> 0, ioFile |-> 0, err |-> NilErr]

NoReturn == [kind |-> "none", result |-> FALSE, Version |-> 0,
             ioBase |-> 0, ioFile |-> 0, err |-> NilErr]

\* int(val.(float64)) and uint64(val.(float64)) on a non-negative float64
\* below 2^63: the fraction is discarded.
\* Mutant: the float64 is rounded to the nearest integer instead of truncated.
Float64ToInt_Rounds(v) == IF v.tenths >= 5 THEN v.whole + 1 ELSE v.whole

Float64ToInt(v) == v.whole

\* Mutant: the float64 is rounded to the nearest integer instead of truncated.
Float64ToUint64_Rounds(v) == IF v.tenths >= 5 THEN v.whole + 1 ELSE v.whole

Float64ToUint64(v) == v.whole

errorFromResponse(r) ==
    IF r.Success = FALSE
    THEN IF r.Error # "" THEN Err("remote", r.Error)
                         ELSE Err("remote", "unknown error")
    ELSE NilErr

\* The Client right after NewClient, no call made yet.
ClientInit ==
    /\ pc = [t \in Threads |-> "idle"]
    /\ op = [t \in Threads |-> "none"]
    /\ reqTag = [t \in Threads |-> 0]
    /\ resp = [t \in Threads |-> NoResp]
    /\ ioBase = [t \in Threads |-> 0]
    /\ ret = [t \in Threads |-> NoReturn]
    /\ trace = [t \in Threads |-> <<>>]
    /\ outbound = <<>>
    /\ inbound = <<>>
    /\ conn = "conn"
    /\ closed = FALSE
    /\ desync = FALSE
    /\ fdTable = {}
    /\ issued = <<>>
    /\ nCalls = 0
    /\ nWritten = 0
    /\ overlap = FALSE
    /\ anyFailed = FALSE

\* ------------------------------------------------------ frame header (api)
Version == 2

TypeCommand == 0

typeMax == 4

cmdMax == 7

\* Mutant: PayloadLength is declared 16 bits wide.
FrameHeaderLayout_ShortPayloadLength ==
    << <<"Version", 2>>, <<"HeaderLength", 1>>, <<"pad0", 1>>, <<"pad1", 2>>,
       <<"pad2", 1>>, <<"Type", 1>>, <<"Opcode", 2>>, <<"PayloadLength", 2>> >>

\* The fields of FrameHeader in declaration order, with their width in bytes.
FrameHeaderLayout ==
    << <<"Version", 2>>, <<"HeaderLength", 1>>, <<"pad0", 1>>, <<"pad1", 2>>,
       <<"pad2", 1>>, <<"Type", 1>>, <<"Opcode", 2>>, <<"PayloadLength", 4>> >>

FieldNames == {FrameHeaderLayout[i][1] : i \in DOMAIN FrameHeaderLayout}

Reserved == {"pad0", "pad1", "pad2"}

RECURSIVE WidthUpTo(_)
\* The bytes the first n fields take.
WidthUpTo(n) == IF n = 0 THEN 0 ELSE WidthUpTo(n - 1) + FrameHeaderLayout[n][2]

HeaderSize == WidthUpTo(Len(FrameHeaderLayout))

\* v as n bytes, most significant first; bits above 8n are lost.
BigEndian(v, n) == [i \in 1..n |-> (v \div (256 ^ (n - i))) % 256]

RECURSIVE BytesToInt(_)
\* The number n bytes stand for, most significant first.
BytesToInt(b) ==
    IF b = <<>> THEN 0
    ELSE 256 * BytesToInt(SubSeq(b, 1, Len(b) - 1)) + b[Len(b)]

RECURSIVE EncodeFields(_, _)
\* The first n fields of header h on the wire; reserved fields are sent as zero.
EncodeFields(h, n) ==
    IF n = 0 THEN <<>>
    ELSE LET f == FrameHeaderLayout[n]
         IN EncodeFields(h, n - 1) \o
                BigEndian(IF f[1] \in Reserved THEN 0 ELSE h[f[1]], f[2])

encode(h) == EncodeFields(h, Len(FrameHeaderLayout))

\* The value of field number i in bytes b.
FieldAt(b, i) ==
    BytesToInt(SubSeq(b, WidthUpTo(i - 1) + 1, WidthUpTo(i)))

\* The header bytes b stand for; reserved fields are not interpreted.
Parsed(b) ==
    [name \in FieldNames |->
        IF name \in Reserved THEN 0
        ELSE LET i == CHOOSE j \in DOMAIN FrameHeaderLayout : FrameHeaderLayout[j][1] = name
             IN FieldAt(b, i)]

NoHeader == [name \in FieldNames |-> 0]

\* decode fails on too few bytes, on a HeaderLength that is not the codec's
\* size and on a version other than the protocol's.
decode(b) ==
    IF Len(b) < HeaderSize
    THEN [ok |-> FALSE, hdr |-> NoHeader]
    ELSE IF Parsed(b)["HeaderLength"] # HeaderSize \/ Parsed(b)["Version"] # Version
         THEN [ok |-> FALSE, hdr |-> NoHeader]
         ELSE [ok |-> TRUE, hdr |-> Parsed(b)]

NotDecoded == [ok |-> FALSE, hdr |-> NoHeader]

\* The payload lengths tried: around each byte boundary of the field.
PayloadLengths == {0, 1, 255, 256, 65535, 65536, 16777216, 16909060}

\* The headers writeMessage builds: the protocol version, the codec's own
\* size, zero reserved fields, any type, any opcode up to the command maximum.
Headers ==
    {[Version |-> Version, HeaderLength |-> HeaderSize, pad0 |-> 0, pad1 |-> 0,
      pad2 |-> 0, Type |-> ty, Opcode |-> oc, PayloadLength |-> pl] :
        ty \in 0..(typeMax - 1), oc \in 0..cmdMax, pl \in PayloadLengths}

Init ==
    /\ ClientInit
    /\ hdrIn = NoHeader
    /\ hdrWire = <<>>
    /\ hdrOut = NotDecoded

\* ------------------------------------------------- the connection (api)
\* What travels from the peer to the client: a Response frame, or a
\* descriptor sent as ancillary data after the frame it belongs to.
Frame(r) == [type |-> "frame", resp |-> r]

FdItem(tag) == [type |-> "fd", resp |-> [NoResp EXCEPT !.tag = tag]]

\* api.WriteMessage fails on a closed connection.
WriteMessageFails == closed

\* api.ReadMessage returns the next frame when the stream is positioned on one.
ReadMessageOk ==
    /\ ~closed
    /\ ~desync
    /\ inbound # <<>>
    /\ Head(inbound).type = "frame"

\* api.ReadMessage fails on a closed connection and when the bytes it takes
\* for a header are not one (it starts on a descriptor's carrier byte); the
\* stream position is then not a frame boundary any more.
ReadMessageFails ==
    \/ closed
    \/ desync
    \/ /\ Len(inbound) >= 2
       /\ Head(inbound).type = "fd"

\* api.ReadFd returns a descriptor when the next thing on the connection is one.
ReadFdOk ==
    /\ ~closed
    /\ ~desync
    /\ inbound # <<>>
    /\ Head(inbound).type = "fd"

\* api.ReadFd fails on a closed connection and when what it reads carries
\* no descriptor (it then has eaten the first byte of a frame).
ReadFdFails ==
    \/ closed
    \/ desync
    \/ /\ inbound # <<>>
       /\ Head(inbound).type = "frame"

\* The number the kernel gives a received descriptor: the lowest one not
\* open in the process (0, 1, 2 and the connection's own socket are).
LowestFreeFd(open) ==
    CHOOSE n \in 4..(4 + Cardinality(open)) :
        /\ n \notin open
        /\ \A m \in 4..(n - 1) : m \in open

\* ------------------------------------------------------------ sendPayload
Others(t) == Threads \ {t}

\* Bookkeeping of an operation being invoked by thread t.
Invoke(t, name) ==
    /\ pc[t] = "idle"
    /\ nCalls < MaxCalls
    /\ nCalls' = nCalls + 1
    /\ op' = [op EXCEPT ![t] = name]
    /\ overlap' = (overlap \/ \E u \in Others(t) : pc[u] # "idle")
    /\ resp' = [resp EXCEPT ![t] = NoResp]
    /\ ioBase' = [ioBase EXCEPT ![t] = 0]
    /\ UNCHANGED <<conn, hdrIn, hdrWire, hdrOut>>

\* The operation's outcome is a failure: a non-nil error or a panic.
Failed(r) == r.kind = "panic" \/ (r.kind = "return" /\ r.err # NilErr)

TransportErr(what) == Return(FALSE, 0, 0, 0, Err("transport", what))

\* Mutant: the request frame is written twice (a retried write).
sendPayloadWrite_Twice(t, id) ==
    /\ trace' = [trace EXCEPT ![t] = <<"write", "write">>]
    /\ IF WriteMessageFails
       THEN /\ ret' = [ret EXCEPT ![t] = TransportErr("write")]
            /\ reqTag' = [reqTag EXCEPT ![t] = 0]
            /\ UNCHANGED <<pc, outbound, nWritten>>
       ELSE /\ nWritten' = nWritten + 1
            /\ reqTag' = [reqTag EXCEPT ![t] = nWritten + 1]
            /\ outbound' = outbound \o <<[ID |-> id, tag |-> nWritten + 1],
                                          [ID |-> id, tag |-> nWritten + 1]>>
            /\ pc' = [pc EXCEPT ![t] = "read"]
            /\ ret' = [ret EXCEPT ![t] = NoReturn]
    /\ anyFailed' = (anyFailed \/ Failed(ret'[t]))
    /\ UNCHANGED <<inbound, closed, desync, fdTable, issued>>

\* sendPayload up to and including api.WriteMessage (client.go 46-59): on a
\* write error the operation returns it, otherwise the call goes on to
\* block in api.ReadMessage.
sendPayloadWrite(t, id) ==
    /\ trace' = [trace EXCEPT ![t] = <<"write">>]
    /\ IF WriteMessageFails
       THEN /\ ret' = [ret EXCEPT ![t] = TransportErr("write")]
            /\ reqTag' = [reqTag EXCEPT ![t] = 0]
            /\ UNCHANGED <<pc, outbound, nWritten>>
       ELSE /\ nWritten' = nWritten + 1
            /\ reqTag' = [reqTag EXCEPT ![t] = nWritten + 1]
            /\ outbound' = Append(outbound, [ID |-> id, tag |-> nWritten + 1])
            /\ pc' = [pc EXCEPT ![t] = "read"]
            /\ ret' = [ret EXCEPT ![t] = NoReturn]
    /\ anyFailed' = (anyFailed \/ Failed(ret'[t]))
    /\ UNCHANGED <<inbound, closed, desync, fdTable, issued>>

\* Mutant: a failed read closes the connection before the error is returned.
sendPayloadRead_ClosesOnError(t) ==
    /\ pc[t] = "read"
    /\ trace' = [trace EXCEPT ![t] = Append(@, "read")]
    /\ \/ /\ ReadMessageOk
          /\ resp' = [resp EXCEPT ![t] = Head(inbound).resp]
          /\ inbound' = Tail(inbound)
          /\ UNCHANGED <<desync, closed>>
       \/ /\ ReadMessageFails
          /\ resp' = [resp EXCEPT ![t] = NoResp]
          /\ desync' = (desync \/ ~closed)
          /\ closed' = TRUE
          /\ UNCHANGED inbound
    /\ UNCHANGED <<op, reqTag, outbound, conn, nCalls, nWritten, overlap,
                   hdrIn, hdrWire, hdrOut>>

\* Mutant: a failed read is tried once more before the error is returned.
sendPayloadRead_Retry(t) ==
    /\ pc[t] = "read"
    /\ \/ /\ ReadMessageOk
          /\ trace' = [trace EXCEPT ![t] = Append(@, "read")]
          /\ resp' = [resp EXCEPT ![t] = Head(inbound).resp]
          /\ inbound' = Tail(inbound)
          /\ UNCHANGED desync
       \/ /\ ReadMessageFails
          /\ trace' = [trace EXCEPT ![t] = @ \o <<"read", "read">>]
          /\ resp' = [resp EXCEPT ![t] = NoResp]
          /\ desync' = (desync \/ ~closed)
          /\ UNCHANGED inbound
    /\ UNCHANGED <<op, reqTag, outbound, conn, closed, nCalls, nWritten, overlap,
                   hdrIn, hdrWire, hdrOut>>

\* Mutant: the read gives up with an error when nothing has arrived (a timeout).
sendPayloadRead_Timeout(t) ==
    /\ pc[t] = "read"
    /\ trace' = [trace EXCEPT ![t] = Append(@, "read")]
    /\ \/ /\ ReadMessageOk
          /\ resp' = [resp EXCEPT ![t] = Head(inbound).resp]
          /\ inbound' = Tail(inbound)
          /\ UNCHANGED desync
       \/ /\ ReadMessageFails \/ inbound = <<>>
          /\ resp' = [resp EXCEPT ![t] = NoResp]
          /\ desync' = (desync \/ (~closed /\ inbound # <<>>))
          /\ UNCHANGED inbound
    /\ UNCHANGED <<op, reqTag, outbound, conn, closed, nCalls, nWritten, overlap,
                   hdrIn, hdrWire, hdrOut>>

\* sendPayload from api.ReadMessage on (client.go 61-66): resp'[t] is the
\* Response handed to the operation, NoResp when sendPayload returns an error.
sendPayloadRead(t) ==
    /\ pc[t] = "read"
    /\ trace' = [trace EXCEPT ![t] = Append(@, "read")]
    /\ \/ /\ ReadMessageOk
          /\ resp' = [resp EXCEPT ![t] = Head(inbound).resp]
          /\ inbound' = Tail(inbound)
          /\ UNCHANGED desync
       \/ /\ ReadMessageFails
          /\ resp' = [resp EXCEPT ![t] = NoResp]
          /\ desync' = (desync \/ ~closed)
          /\ UNCHANGED inbound
    /\ UNCHANGED <<op, reqTag, outbound, conn, closed, nCalls, nWritten, overlap,
                   hdrIn, hdrWire, hdrOut>>

\* --------------------------------------------------------------- catalog
\* Mutant: the "version" lookup is not checked before the type assertion.
RegisterVMResult_NoCheck(r) ==
    IF "version" \notin DOMAIN r.Data \/ r.Data["version"].kind # "float64"
    THEN Panic
    ELSE Return(TRUE, Float64ToInt(r.Data["version"]), 0, 0, errorFromResponse(r))

RegisterVMResult(r) ==
    IF "version" \notin DOMAIN r.Data
    THEN Return(FALSE, 0, 0, 0, Err("missing", "RegisterVM: no version in response"))
    ELSE IF r.Data["version"].kind # "float64"
         THEN Panic
         ELSE Return(TRUE, Float64ToInt(r.Data["version"]), 0, 0, errorFromResponse(r))

\* Mutant: the reply's error is checked first and returned with a nil result.
AttachResult_ErrorFirst(r) ==
    IF errorFromResponse(r) # NilErr
    THEN Return(FALSE, 0, 0, 0, errorFromResponse(r))
    ELSE IF "version" \notin DOMAIN r.Data
         THEN Return(FALSE, 0, 0, 0, Err("missing", "attach: no version in response"))
         ELSE IF r.Data["version"].kind # "float64"
              THEN Panic
              ELSE Return(TRUE, Float64ToInt(r.Data["version"]), 0, 0, NilErr)

AttachResult(r) ==
    IF "version" \notin DOMAIN r.Data
    THEN Return(FALSE, 0, 0, 0, Err("missing", "attach: no version in response"))
    ELSE IF r.Data["version"].kind # "float64"
         THEN Panic
         ELSE Return(TRUE, Float64ToInt(r.Data["version"]), 0, 0, errorFromResponse(r))

\* Hyper and UnregisterVM return errorFromResponse(resp) and nothing else.
StatusResult(r) == Return(FALSE, 0, 0, 0, errorFromResponse(r))

\* AllocateIo between sendPayload and api.ReadFd (client.go 173-183): what
\* it returns there, or NoReturn when it goes on to read the descriptor.
AllocateIoResult(r) ==
    IF errorFromResponse(r) # NilErr
    THEN Return(FALSE, 0, 0, 0, errorFromResponse(r))
    ELSE IF "ioBase" \notin DOMAIN r.Data
         THEN Return(FALSE, 0, 0, 0, Err("missing", "allocateio: no ioBase in response"))
         ELSE IF r.Data["ioBase"].kind # "float64"
              THEN Panic
              ELSE NoReturn

RegisterVM(t) ==
    /\ Invoke(t, "register")
    /\ sendPayloadWrite(t, "register")

Attach(t) ==
    /\ Invoke(t, "attach")
    /\ sendPayloadWrite(t, "attach")

AllocateIo(t) ==
    /\ Invoke(t, "allocateIO")
    /\ sendPayloadWrite(t, "allocateIO")

UnregisterVM(t) ==
    /\ Invoke(t, "unregister")
    /\ sendPayloadWrite(t, "unregister")

\* Mutant: Hyper sends its request and returns without waiting for the reply.
Hyper_NoReply(t, hyperMessage) ==
    /\ Invoke(t, "hyper")
    /\ ~WriteMessageFails
    /\ trace' = [trace EXCEPT ![t] = <<"write">>]
    /\ nWritten' = nWritten + 1
    /\ reqTag' = [reqTag EXCEPT ![t] = nWritten + 1]
    /\ outbound' = Append(outbound, [ID |-> "hyper", tag |-> nWritten + 1])
    /\ ret' = [ret EXCEPT ![t] = Return(FALSE, 0, 0, 0, NilErr)]
    /\ UNCHANGED <<pc, inbound, closed, desync, fdTable, issued, anyFailed>>

\* Hyper marshals hyperMessage first (client.go 200-207); a message that
\* cannot be marshalled makes it return before sendPayload is called.
Hyper(t, hyperMessage) ==
    /\ Invoke(t, "hyper")
    /\ IF hyperMessage = "unmarshalable"
       THEN /\ ret' = [ret EXCEPT ![t] = Return(FALSE, 0, 0, 0, Err("marshal", "json"))]
            /\ trace' = [trace EXCEPT ![t] = <<>>]
            /\ reqTag' = [reqTag EXCEPT ![t] = 0]
            /\ anyFailed' = TRUE
            /\ UNCHANGED <<pc, outbound, nWritten, inbound, closed, desync, fdTable, issued>>
       ELSE sendPayloadWrite(t, "hyper")

\* The operation resumes with sendPayload's result and returns.
Resume(t, result) ==
    /\ ret' = [ret EXCEPT ![t] = IF resp'[t] = NoResp THEN TransportErr("read") ELSE result]
    /\ pc' = [pc EXCEPT ![t] = "idle"]
    /\ anyFailed' = (anyFailed \/ Failed(ret'[t]))
    /\ UNCHANGED <<ioBase, fdTable, issued>>

RegisterVMReply(t) ==
    /\ op[t] = "register"
    /\ sendPayloadRead(t)
    /\ Resume(t, RegisterVMResult(resp'[t]))

\* Mutant: Attach goes on to read a descriptor the way AllocateIo does.
AttachReply_ReadsFd(t) ==
    /\ op[t] = "attach"
    /\ sendPayloadRead(t)
    /\ pc' = [pc EXCEPT ![t] = "readfd"]
    /\ UNCHANGED <<ioBase, ret, fdTable, issued, anyFailed>>

AttachReply(t) ==
    /\ op[t] = "attach"
    /\ sendPayloadRead(t)
    /\ Resume(t, AttachResult(resp'[t]))

HyperReply(t) ==
    /\ op[t] = "hyper"
    /\ sendPayloadRead(t)
    /\ Resume(t, StatusResult(resp'[t]))

UnregisterVMReply(t) ==
    /\ op[t] = "unregister"
    /\ sendPayloadRead(t)
    /\ Resume(t, StatusResult(resp'[t]))

\* AllocateIo after sendPayload: returns on an error, a Success=false reply
\* or a missing ioBase, otherwise converts ioBase and blocks in api.ReadFd.
AllocateIoReply(t) ==
    /\ op[t] = "allocateIO"
    /\ sendPayloadRead(t)
    /\ IF resp'[t] # NoResp /\ AllocateIoResult(resp'[t]) = NoReturn
       THEN /\ ioBase' = [ioBase EXCEPT ![t] = Float64ToUint64(resp'[t].Data["ioBase"])]
            /\ pc' = [pc EXCEPT ![t] = "readfd"]
            /\ UNCHANGED <<ret, fdTable, issued, anyFailed>>
       ELSE Resume(t, AllocateIoResult(resp'[t]))

\* Mutant: the error of api.ReadFd is ignored and AllocateIo returns normally.
couldntReadFd_Ignored(t) == Return(FALSE, 0, ioBase[t], 0, NilErr)

\* Mutant: a bare return after the failed api.ReadFd keeps the named result ioBase.
couldntReadFd_BareReturn(t) ==
    Return(FALSE, 0, ioBase[t], 0, Err("fd", "allocateio: couldn't read fd"))

\* What AllocateIo returns when api.ReadFd fails (client.go 187-189).
couldntReadFd(t) == Return(FALSE, 0, 0, 0, Err("fd", "allocateio: couldn't read fd"))

\* AllocateIo from api.ReadFd on (client.go 185-193).
AllocateIoReadFd(t) ==
    /\ pc[t] = "readfd"
    /\ trace' = [trace EXCEPT ![t] = Append(@, "readfd")]
    /\ pc' = [pc EXCEPT ![t] = "idle"]
    /\ \/ /\ ReadFdOk
          /\ LET newFd == LowestFreeFd(fdTable)
             IN /\ fdTable' = fdTable \cup {newFd}
                /\ ret' = [ret EXCEPT ![t] = Return(FALSE, 0, ioBase[t], newFd, NilErr)]
                /\ issued' = Append(issued, newFd)
          /\ inbound' = Tail(inbound)
          /\ UNCHANGED desync
       \/ /\ ReadFdFails
          /\ ret' = [ret EXCEPT ![t] = couldntReadFd(t)]
          /\ desync' = (desync \/ ~closed)
          /\ UNCHANGED <<inbound, fdTable, issued>>
    /\ anyFailed' = (anyFailed \/ Failed(ret'[t]))
    /\ UNCHANGED <<op, reqTag, resp, ioBase, outbound, conn, closed, nCalls, nWritten, overlap,
                   hdrIn, hdrWire, hdrOut>>

\* Mutant: Close also closes the files AllocateIo has handed out.
Close_ClosesFiles ==
    /\ ~closed
    /\ closed' = TRUE
    /\ fdTable' = {}
    /\ UNCHANGED <<pc, op, reqTag, resp, ioBase, ret, trace, outbound, inbound, conn,
                   desync, issued, nCalls, nWritten, overlap, anyFailed,
                   hdrIn, hdrWire, hdrOut>>

\* Client.Close closes the connection; any thread may call it at any time.
Close ==
    /\ ~closed
    /\ closed' = TRUE
    /\ UNCHANGED <<pc, op, reqTag, resp, ioBase, ret, trace, outbound, inbound, conn,
                   desync, fdTable, issued, nCalls, nWritten, overlap, anyFailed,
                   hdrIn, hdrWire, hdrOut>>

\* The proxy takes the oldest request and answers it with one Response
\* frame; an allocateIO answer may be followed by a descriptor.
PeerReply ==
    /\ ~closed
    /\ outbound # <<>>
    /\ outbound' = Tail(outbound)
    /\ LET req == Head(outbound)
       IN \E r \in Responses(req.ID, req.tag), withFd \in BOOLEAN :
            /\ withFd => req.ID = "allocateIO"
            /\ inbound' = inbound \o <<Frame(r)>> \o
                            (IF withFd THEN <<FdItem(req.tag)>> ELSE <<>>)
    /\ UNCHANGED <<pc, op, reqTag, resp, ioBase, ret, trace, conn, closed, desync,
                   fdTable, issued, nCalls, nWritten, overlap, anyFailed,
                   hdrIn, hdrWire, hdrOut>>

HyperMessages == {"nil", "message", "unmarshalable"}

Next ==
    \/ \E t \in Threads : RegisterVM(t)
    \/ \E t \in Threads : Attach(t)
    \/ \E t \in Threads : AllocateIo(t)
    \/ \E t \in Threads, m \in HyperMessages : Hyper(t, m)
    \/ \E t \in Threads : UnregisterVM(t)
    \/ \E t \in Threads : RegisterVMReply(t)
    \/ \E t \in Threads : AttachReply(t)
    \/ \E t \in Threads : AllocateIoReply(t)
    \/ \E t \in Threads : AllocateIoReadFd(t)
    \/ \E t \in Threads : HyperReply(t)
    \/ \E t \in Threads : UnregisterVMReply(t)
    \/ Close
    \/ PeerReply

Spec == Init /\ [][Next]_vars

\* The steps by which a blocked call of thread t goes on: a thread blocked
\* in a read is woken when data arrives or the connection is closed.
Unblock(t) ==
    \/ RegisterVMReply(t)
    \/ AttachReply(t)
    \/ AllocateIoReply(t)
    \/ AllocateIoReadFd(t)
    \/ HyperReply(t)
    \/ UnregisterVMReply(t)

\* The client with its threads scheduled fairly.
FairSpec == Spec /\ \A t \in Threads : WF_vars(Unblock(t))

\* -------------------------------------------- the header codec on its own
\* Any header writeMessage can build is about to be encoded.
HeaderInit ==
    /\ ClientInit
    /\ hdrIn \in Headers
    /\ hdrWire = <<>>
    /\ hdrOut = NotDecoded

clientVars == <<pc, op, reqTag, resp, ioBase, ret, trace, outbound, inbound, conn,
                closed, desync, fdTable, issued, nCalls, nWritten, overlap, anyFailed>>

\* The sender encodes the header.
HeaderEncode ==
    /\ hdrWire = <<>>
    /\ hdrWire' = encode(hdrIn)
    /\ UNCHANGED <<hdrIn, hdrOut, clientVars>>

\* The receiver decodes the bytes it got.
HeaderDecode ==
    /\ hdrWire # <<>>
    /\ hdrOut = NotDecoded
    /\ hdrOut' = decode(hdrWire)
    /\ UNCHANGED <<hdrIn, hdrWire, clientVars>>

HeaderNext == HeaderEncode \/ HeaderDecode

HeaderSpec == HeaderInit /\ [][HeaderNext]_vars

\* ============================================================== claims
\* Thread t has been handed a Response by sendPayload in its current call.
GotResponse(t) == resp[t] # NoResp

\* Thread t's last operation has returned to its caller (or panicked).
Returned(t) == pc[t] = "idle" /\ ret[t].kind # "none"

AllIdle == \A t \in Threads : pc[t] = "idle"

\* C1: when two calls overlap on one Client and the peer replies in request
\* order, the call whose request was written second never gets the Response
\* that answers the request written first.
C1_SecondNeverGetsFirstsAnswer ==
    \A t \in Threads : \A u \in Others(t) :
        (reqTag[t] # 0 /\ reqTag[u] > reqTag[t] /\ GotResponse(u))
            => resp[u].tag # reqTag[t]

\* C2: at most one call per connection is in flight (request written, reply
\* not yet read) in every reachable state.
C2_AtMostOneInFlight ==
    Cardinality({t \in Threads : pc[t] = "read"}) <= 1

\* C3: when calls are issued strictly one after another and the peer sends
\* one reply frame per request in request order, every Response a call gets
\* answers its own request; and as long as every operation so far succeeded,
\* the connection holds nothing but what the current call is about to read.
C3_SequentialCallsGetOwnReply ==
    ~overlap =>
        /\ \A t \in Threads : GotResponse(t) => resp[t].tag = reqTag[t]
        /\ ~anyFailed =>
            /\ ~desync
            /\ AllIdle => inbound = <<>>
            /\ \A t \in Threads :
                /\ (pc[t] = "read" /\ inbound # <<>>) =>
                       /\ Head(inbound).type = "frame"
                       /\ Head(inbound).resp.tag = reqTag[t]
                /\ (pc[t] = "readfd" /\ inbound # <<>>) =>
                       /\ Head(inbound).type = "fd"
                       /\ Head(inbound).resp.tag = reqTag[t]
                       /\ Len(inbound) = 1

\* C3 witness: the second of two sequential calls has got its own reply.
C3_Witness ==
    /\ ~overlap
    /\ ~anyFailed
    /\ \E t \in Threads : GotResponse(t) /\ reqTag[t] = 2 /\ resp[t].tag = 2 /\ Returned(t)

\* C4: in every call the request frame is written before any frame is read,
\* and a call that has a Response did exactly one frame write followed by
\* exactly one frame read.
C4_OneWriteThenOneRead ==
    \A t \in Threads :
        /\ \E n \in 0..3 : trace[t] = SubSeq(<<"write", "read", "readfd">>, 1, n)
        /\ GotResponse(t) =>
            /\ Len(trace[t]) >= 2
            /\ Cardinality({i \in DOMAIN trace[t] : trace[t][i] = "write"}) = 1
            /\ Cardinality({i \in DOMAIN trace[t] : trace[t][i] = "read"}) = 1

\* C4 witness: a call has returned a Response after one write and one read.
C4_Witness ==
    \E t \in Threads :
        GotResponse(t) /\ Returned(t) /\ trace[t] = <<"write", "read">>

\* The message of the RemoteError a reply with Success=false stands for.
RemoteMessage(r) == IF r.Error # "" THEN r.Error ELSE "unknown error"

\* C5: for every catalog operation a reply with Success=false makes the
\* operation return a RemoteError carrying the reply's Error text, or
\* "unknown error" when that is empty; a reply with Success=true never
\* yields a RemoteError.
C5_RemoteErrorIffNotSuccess ==
    \A t \in Threads :
        (Returned(t) /\ GotResponse(t)) =>
            IF resp[t].Success
            THEN ret[t].err.kind # "remote"
            ELSE /\ ret[t].kind = "return"
                 /\ ret[t].err = Err("remote", RemoteMessage(resp[t]))

\* The key operation o reads from Response.Data is there and is no number.
WrongShape(o, r) ==
    \E k \in KeysOf(o) : k \in DOMAIN r.Data /\ r.Data[k].kind # "float64"

\* C6: when the expected key is present in Response.Data but is not a
\* number, the operation returns a TypeMismatchError and never crashes.
C6_TypeMismatchNotCrash ==
    \A t \in Threads :
        /\ ret[t].kind # "panic"
        /\ (Returned(t) /\ GotResponse(t) /\ WrongShape(op[t], resp[t])) =>
               ret[t].err.kind = "typemismatch"

\* C7: after an operation returned a RemoteError, a MissingFieldError or a
\* TypeMismatchError, nothing that belongs to it is left on the connection
\* and the stream is still at a frame boundary.
C7_RecoverableErrorLeavesConnectionClean ==
    \A t \in Threads :
        (/\ ~overlap
         /\ Returned(t)
         /\ ret[t].kind = "return"
         /\ ret[t].err.kind \in {"remote", "missing", "typemismatch"})
            => /\ ~desync
               /\ \A i \in DOMAIN inbound : inbound[i].resp.tag # reqTag[t]

\* C8: a descriptor is read only by AllocateIo, only after that call has
\* read its reply frame, and at most once per call; the descriptors open
\* in the process are exactly those AllocateIo has returned.
C8_OnlyAllocateIoReadsFd ==
    /\ \A t \in Threads :
        (pc[t] = "readfd" \/ \E i \in DOMAIN trace[t] : trace[t][i] = "readfd") =>
            /\ op[t] = "allocateIO"
            /\ GotResponse(t)
            /\ ~overlap => resp[t].tag = reqTag[t]
            /\ trace[t] \in {<<"write", "read">>, <<"write", "read", "readfd">>}
    /\ fdTable = {issued[i] : i \in DOMAIN issued}

\* C8 witness: an AllocateIo call has read its reply and then a descriptor.
C8_Witness ==
    \E t \in Threads :
        /\ op[t] = "allocateIO"
        /\ trace[t] = <<"write", "read", "readfd">>
        /\ ret[t].ioFile \in fdTable

\* C9: RegisterVM and Attach on a reply without "version", and AllocateIo on
\* a successful reply without "ioBase", return a MissingFieldError and no
\* result, and do not crash.
C9_MissingKeyIsMissingFieldError ==
    \A t \in Threads :
        (/\ GotResponse(t)
         /\ \/ op[t] \in {"register", "attach"} /\ "version" \notin DOMAIN resp[t].Data
            \/ op[t] = "allocateIO" /\ resp[t].Success /\ "ioBase" \notin DOMAIN resp[t].Data)
            => /\ Returned(t)
               /\ ret[t].kind = "return"
               /\ ret[t].err.kind = "missing"
               /\ ~ret[t].result
               /\ ret[t].Version = 0
               /\ ret[t].ioBase = 0
               /\ ret[t].ioFile = 0

\* C9 witness: each of the three operations has met a reply without its key.
C9_Witness ==
    /\ \E t \in Threads :
        /\ op[t] = "allocateIO" /\ GotResponse(t) /\ resp[t].Success
        /\ resp[t].Data = <<>> /\ ret[t].err.kind = "missing"
    /\ \E t \in Threads :
        /\ op[t] \in {"register", "attach"} /\ GotResponse(t)
        /\ resp[t].Data = <<>> /\ ret[t].err.kind = "missing"

\* Thread t's AllocateIo got a successful reply with a numeric ioBase and
\* has returned after reading the descriptor from a connection in order.
AllocateIoServed(t) ==
    /\ op[t] = "allocateIO"
    /\ GotResponse(t)
    /\ resp[t].Success
    /\ "ioBase" \in DOMAIN resp[t].Data
    /\ resp[t].Data["ioBase"].kind = "float64"
    /\ Returned(t)
    /\ ~closed
    /\ ~desync

NoDuplicates(q) == \A i \in DOMAIN q : \A j \in DOMAIN q : q[i] = q[j] => i = j

\* The file AllocateIo returned wraps an open descriptor, with no error,
\* and no two returned descriptors are the same.
FileReturned(t) ==
    /\ ret[t].kind = "return"
    /\ ret[t].err = NilErr
    /\ ret[t].ioFile \in fdTable
    /\ \E i \in DOMAIN issued : issued[i] = ret[t].ioFile
    /\ NoDuplicates(issued)

VersionServed(t) ==
    /\ op[t] \in {"register", "attach"}
    /\ GotResponse(t)
    /\ resp[t].Success
    /\ "version" \in DOMAIN resp[t].Data
    /\ resp[t].Data["version"].kind = "float64"

ReturnedAfterReadFd(t) ==
    /\ op[t] = "allocateIO"
    /\ Returned(t)
    /\ trace[t] = <<"write", "read", "readfd">>

\* C12: when AllocateIo has read a successful reply carrying ioBase and the
\* descriptor cannot be received, it returns the descriptor error, which is
\* neither a read (decode) error nor the missing-field error; AllocateIo
\* never returns success without an open descriptor.
C12_FdFailureIsItsOwnError ==
    \A t \in Threads :
        /\ ReturnedAfterReadFd(t) =>
            /\ ret[t].kind = "return"
            /\ ret[t].ioFile = 0 =>
                /\ ret[t].err.kind = "fd"
                /\ ret[t].err.msg = "allocateio: couldn't read fd"
                /\ ret[t].err # TransportErr("read").err
                /\ ret[t].err.msg # "allocateio: no ioBase in response"
        /\ (op[t] = "allocateIO" /\ Returned(t) /\ ret[t].kind = "return"
                /\ ret[t].err = NilErr) =>
            /\ ret[t].ioFile # 0
            /\ ret[t].ioFile \in fdTable

\* C12 witness: AllocateIo read a successful reply with a numeric ioBase and
\* then failed to receive the descriptor.
C12_Witness ==
    \E t \in Threads :
        /\ ReturnedAfterReadFd(t)
        /\ resp[t].Success
        /\ resp[t].Data["ioBase"].kind = "float64"
        /\ ret[t].err.kind = "fd"

\* C13: a call blocked waiting for its reply returns with an error once the
\* connection is closed; and a call leaves its read only when the
\* connection is closed or the peer has sent something (no timeout).
C13_CloseUnblocksNothingElseDoes ==
    /\ \A t \in Threads :
        (pc[t] = "read" /\ closed) ~>
            (pc[t] = "idle" /\ ret[t].kind = "return" /\ ret[t].err # NilErr)
    /\ [][\A t \in Threads :
            (pc[t] = "read" /\ pc'[t] # "read") => (closed \/ inbound # <<>>)]_vars

\* C13 witness: a call that was blocked in its read has returned the read
\* error on a closed connection.
C13_Witness ==
    \E t \in Threads :
        /\ closed
        /\ Returned(t)
        /\ trace[t] = <<"write", "read">>
        /\ ret[t] = TransportErr("read")

\* The number of times access a occurs in thread t's current call.
Accesses(t, a) == Cardinality({i \in DOMAIN trace[t] : trace[t][i] = a})

\* C14: no retry and no reconnection: a call writes at most one request
\* frame; a payload that cannot be encoded means nothing is written or read;
\* a failed write is followed by no read; a failed read is followed by no
\* further write or read.
C14_NoRetry ==
    /\ nWritten <= nCalls
    /\ \A t \in Threads :
        /\ Accesses(t, "write") <= 1
        /\ Accesses(t, "read") <= 1
        /\ ret[t].err.kind = "marshal" => (trace[t] = <<>> /\ reqTag[t] = 0)
        /\ ret[t] = TransportErr("write") => (trace[t] = <<"write">> /\ reqTag[t] = 0)
        /\ ret[t] = TransportErr("read") => trace[t] = <<"write", "read">>

\* C14 witness: one call failed to encode its payload, another failed in
\* its read.
C14_Witness ==
    /\ \E t \in Threads : Returned(t) /\ ret[t].err.kind = "marshal"
    /\ \E t \in Threads : Returned(t) /\ ret[t] = TransportErr("read")
    /\ nWritten = 1

\* C14 second witness state: a call failed in its write.
C14_WriteFailed ==
    \E t \in Threads : Returned(t) /\ ret[t] = TransportErr("write")

\* C15: the Client's connection is the one it was constructed with for its
\* whole life, and only Client.Close closes it: a step that closes the
\* connection is no step of an operation, failed or not.
C15_ConnectionFixed ==
    /\ [](conn = "conn")
    /\ [][closed' # closed =>
            /\ closed'
            /\ UNCHANGED <<pc, op, reqTag, resp, ioBase, ret, trace, outbound,
                           inbound, conn, desync, fdTable, issued, nCalls>>]_vars

\* C15 witness: an operation has failed with a connection-fatal error and
\* the connection is still the Client's and still open.
C15_Witness ==
    \E t \in Threads :
        /\ Returned(t)
        /\ ret[t].err.kind \in {"transport", "fd"}
        /\ conn = "conn"
        /\ ~closed

\* C16: a descriptor handed out by AllocateIo is never closed by the client:
\* no step, Client.Close included, closes a descriptor that is open, and
\* every descriptor ever returned stays open.
C16_IssuedFdsStayOpen ==
    /\ [][\A f \in fdTable : f \in fdTable']_vars
    /\ [](\A i \in DOMAIN issued : issued[i] \in fdTable)

\* C16 witness: after AllocateIo handed out a descriptor the Client was
\* closed and a later operation ran, and the descriptor is still open.
C16_Witness ==
    /\ closed
    /\ Len(issued) = 1
    /\ issued[1] \in fdTable
    /\ \E t \in Threads : Returned(t) /\ ret[t] = TransportErr("write")

\* C18: whenever AllocateIo returns a non-nil error its ioBase is 0 and its
\* file is nil; it returns a non-nil file only together with a nil error.
C18_AllocateIoErrorMeansZeroResults ==
    \A t \in Threads :
        (op[t] = "allocateIO" /\ Returned(t) /\ ret[t].kind = "return") =>
            /\ ret[t].err # NilErr => (ret[t].ioBase = 0 /\ ret[t].ioFile = 0)
            /\ ret[t].ioFile # 0 => ret[t].err = NilErr

\* C18 witness: AllocateIo had set ioBase from the reply, failed to receive
\* the descriptor and returned ioBase 0 and no file.
C18_Witness ==
    \E t \in Threads :
        /\ op[t] = "allocateIO"
        /\ Returned(t)
        /\ ioBase[t] # 0
        /\ ret[t].err.kind = "fd"
        /\ ret[t].ioBase = 0
        /\ ret[t].ioFile = 0

\* Thread t's RegisterVM or Attach got a reply Success=false whose Data
\* carries a numeric "version".
VersionWithFailure(t) ==
    /\ op[t] \in {"register", "attach"}
    /\ GotResponse(t)
    /\ ~resp[t].Success
    /\ "version" \in DOMAIN resp[t].Data
    /\ resp[t].Data["version"].kind = "float64"

\* RegisterVM or Attach of thread t returned a nil result.
NilResult(t) ==
    /\ op[t] \in {"register", "attach"}
    /\ Returned(t)
    /\ ret[t].kind = "return"
    /\ ~ret[t].result

\* The nil result of thread t comes from a failed transport or from a
\* reply without "version".
NilResultExplained(t) ==
    \/ ~GotResponse(t) /\ ret[t].err.kind = "transport"
    \/ GotResponse(t) /\ "version" \notin DOMAIN resp[t].Data

C17_HeaderRoundTrip ==
    (/\ hdrWire # <<>>
     /\ hdrIn["Type"] = TypeCommand
     /\ hdrIn["Opcode"] < cmdMax)
        => /\ Len(hdrWire) = HeaderSize
           /\ decode(hdrWire).ok
           /\ \A f \in FieldNames \ Reserved : decode(hdrWire).hdr[f] = hdrIn[f]
           /\ hdrOut # NotDecoded => hdrOut = [ok |-> TRUE, hdr |-> hdrIn]

\* C17 witness: a Signal command header with a four-byte payload length has
\* been encoded and decoded.
C17_Witness ==
    /\ hdrIn["Type"] = TypeCommand
    /\ hdrIn["Opcode"] = cmdMax - 1
    /\ hdrIn["PayloadLength"] = 16909060
    /\ hdrOut.ok
    /\ hdrOut.hdr["PayloadLength"] = 16909060

====
